---- MODULE Spec2Model ----
(***************************************************************************)
(* UART line framer of apps/uart_cmd_server/src/main.c.                    *)
(*                                                                         *)
(* serial_cb() is entered from two interrupt-level contexts: the UART      *)
(* receive interrupt ("isr") and the k_timer expiry function               *)
(* uart_timer_expiry_func ("tmr").  Both run on one CPU; either may        *)
(* preempt the other (nested interrupts, priority fixed by the board), and *)
(* the preempted one resumes only after the preemptor has returned.  The   *)
(* consumer is the loop at the end of main(), which runs only while no     *)
(* handler is active.  Each handler statement that touches shared state is *)
(* one step; program positions are named after the source line.            *)
(*                                                                         *)
(* The state starts after main() line 149: rx interrupt enabled, timer     *)
(* started, all statics zero.                                              *)
(***************************************************************************)
EXTENDS Integers, Sequences, FiniteSets, TLC

\* ---- sizes -------------------------------------------------------------
\* main.c uses MSG_SIZE 32, a queue of 10 slots and a period of 1000 ms;
\* the model keeps the code's expressions in these names and runs them at
\* reduced sizes.
MSG_SIZE == 3
QueueDepth == 2
IdleTicks == 1
\* depth of the UART hardware receive FIFO
FifoCap == 2
\* number of bytes the line delivers in one run of Spec
MaxBytes == 3
\* number of bytes the line delivers in one run of SpecRx
RxBytes == 4

NUL == 0
LF == 10
CR == 13

\* bytes the line can deliver: NUL, the two terminators, two data bytes
Bytes == {NUL, LF, CR, 97, 98}
\* the bytes of a text line: one data byte and the two terminators
TextBytes == {LF, CR, 97}

Ctx == {"isr", "tmr"}

BufIdx == 0..(MSG_SIZE - 1)

VARIABLES
    fifo,         \* UART receive FIFO (hardware), oldest first
    rx_buf,       \* static char rx_buf[MSG_SIZE]
    rx_buf_pos,   \* static int rx_buf_pos
    uart_idle,    \* static bool uart_idle
    mutex,        \* uart_idle_mutex lock count
    timer_left,   \* uart_rx_timer: ticks until the next expiry
    uart_msgq,    \* K_MSGQ uart_msgq: slots, oldest first
    pc,           \* position of each handler context
    c,            \* serial_cb local c, per context
    is_idle,      \* serial_cb local is_idle, per context
    running,      \* handler contexts in execution, innermost first
    rd,           \* history: bytes returned by uart_fifo_read, in order
    enq,          \* history: slots accepted by k_msgq_put, in order
    drops,        \* history: number of k_msgq_put calls on a full queue
    delivered,    \* history: slots returned by k_msgq_get, in order
    sent          \* history: number of bytes the line has delivered

vars == <<fifo, rx_buf, rx_buf_pos, uart_idle, mutex, timer_left, uart_msgq,
          pc, c, is_idle, running, rd, enq, drops, delivered, sent>>

hist == <<rd, enq, drops, delivered, sent>>

\* ---- pure helpers --------------------------------------------------------
Zeros == [i \in BufIdx |-> NUL]

\* IsTerminator that forgets the carriage return
IsTerminatorLF(b) == b = LF

IsTerminator(b) == b = LF \/ b = CR

\* rx_buf[i] = v; a store outside the array leaves the array as it was
Store(buf, i, v) == IF i \in BufIdx THEN [buf EXCEPT ![i] = v] ELSE buf

\* MsgqPut that makes room on a full queue by discarding the oldest slot
MsgqPutDropOldest(q, m) ==
    IF Len(q) < QueueDepth THEN Append(q, m) ELSE Append(Tail(q), m)

\* k_msgq_put(&uart_msgq, &rx_buf, K_NO_WAIT): copy the slot in, or give up
MsgqPut(q, m) == IF Len(q) < QueueDepth THEN Append(q, m) ELSE q

\* MsgqGet that hands out the newest slot
MsgqGetNewest(q) == <<q[Len(q)], SubSeq(q, 1, Len(q) - 1)>>

\* k_msgq_get(&uart_msgq, &tx_buf, K_FOREVER) on a non-empty queue: the slot
\* copied to tx_buf and the queue that remains
MsgqGet(q) == <<Head(q), Tail(q)>>

\* strlen(buf) as print_uart computes it; MSG_SIZE when no NUL is in the slot
strlen(buf) ==
    IF \E i \in BufIdx : buf[i] = NUL
    THEN CHOOSE i \in BufIdx : buf[i] = NUL /\ \A j \in 0..(i - 1) : buf[j] # NUL
    ELSE MSG_SIZE

\* the bytes print_uart sends for a slot
print_uart(buf) == [i \in 1..strlen(buf) |-> buf[i - 1]]

\* the branch conditions of line 80 and line 90
FlushCond(ch, pos) == IsTerminator(ch) \/ pos >= MSG_SIZE
StoreCond(pos) == pos < MSG_SIZE - 1

\* ---- initial state -------------------------------------------------------
Init ==
    /\ fifo = <<>>
    /\ rx_buf = Zeros
    /\ rx_buf_pos = 0
    /\ uart_idle = FALSE
    /\ mutex = 0
    /\ timer_left = IdleTicks
    /\ uart_msgq = <<>>
    /\ pc = [x \in Ctx |-> "idle"]
    /\ c = [x \in Ctx |-> NUL]
    /\ is_idle = [x \in Ctx |-> FALSE]
    /\ running = <<>>
    /\ rd = <<>>
    /\ enq = <<>>
    /\ drops = 0
    /\ delivered = <<>>
    /\ sent = 0

\* ---- control helpers -----------------------------------------------------
Active(x) == running # <<>> /\ Head(running) = x

At(x, l) == Active(x) /\ pc[x] = l

Goto(x, l) == pc' = [pc EXCEPT ![x] = l] /\ UNCHANGED running

\* return from serial_cb (and from the expiry function that called it)
Return(x) ==
    /\ pc' = [pc EXCEPT ![x] = "idle"]
    /\ running' = Tail(running)
    /\ c' = [c EXCEPT ![x] = NUL]
    /\ is_idle' = [is_idle EXCEPT ![x] = FALSE]

\* ---- environment ---------------------------------------------------------
\* a byte of B arrives on the line and enters the hardware FIFO
Arrive(B, max) ==
    /\ sent < max
    /\ Len(fifo) < FifoCap
    /\ \E b \in B : fifo' = Append(fifo, b)
    /\ sent' = sent + 1
    /\ UNCHANGED <<rx_buf, rx_buf_pos, uart_idle, mutex, timer_left, uart_msgq,
                   pc, c, is_idle, running, rd, enq, drops, delivered>>

ByteArrives == Arrive(TextBytes, MaxBytes)

BurstArrives == Arrive(Bytes, RxBytes)

\* A byte after the first arrives only at the end of an idle gap: every byte
\* sent has been read and no handler runs; a full period has run down since
\* the last byte's restart of the timer (line 71); and uart_idle is set, which
\* only an expiry (line 115) later than the last byte's clear of the flag
\* (line 74) can have done.
IdleGap ==
    /\ running = <<>>
    /\ fifo = <<>> /\ Len(rd) = sent
    /\ timer_left = 0
    /\ uart_idle

GapArrives == (sent = 0 \/ IdleGap) /\ Arrive(TextBytes, MaxBytes)

\* one line that does not fit the buffer: MSG_SIZE data bytes, then a line feed
LineArrives == Arrive({IF sent < MSG_SIZE THEN 97 ELSE LF}, MSG_SIZE + 1)

\* time passes on the running timer.  A handler run is far shorter than the
\* timer period, so the clock advances between handler runs; an expiry that
\* is due when a handler starts may still interrupt it at any later point.
Tick ==
    /\ timer_left > 0
    /\ running = <<>>
    /\ timer_left' = timer_left - 1
    /\ UNCHANGED <<fifo, rx_buf, rx_buf_pos, uart_idle, mutex, uart_msgq,
                   pc, c, is_idle, running, hist>>

\* ---- entry points --------------------------------------------------------
\* the UART receive interrupt calls serial_cb (registered at line 130)
IsrEnter ==
    /\ fifo # <<>>
    /\ pc["isr"] = "idle"
    /\ pc' = [pc EXCEPT !["isr"] = "L44"]
    /\ running' = <<"isr">> \o running
    /\ UNCHANGED <<fifo, rx_buf, rx_buf_pos, uart_idle, mutex, timer_left,
                   uart_msgq, c, is_idle, hist>>

\* the periodic timer expires: uart_timer_expiry_func is called and the
\* timer is re-armed for another period (k_timer_start period argument)
TimerEnter ==
    /\ timer_left = 0
    /\ pc["tmr"] = "idle"
    /\ pc' = [pc EXCEPT !["tmr"] = "L114"]
    /\ running' = <<"tmr">> \o running
    /\ timer_left' = IdleTicks
    /\ UNCHANGED <<fifo, rx_buf, rx_buf_pos, uart_idle, mutex, uart_msgq,
                   c, is_idle, hist>>

\* ---- the idle-flag mutex --------------------------------------------------
\* k_mutex_lock(&uart_idle_mutex, K_FOREVER) in handler context x, continuing
\* at l.  A free mutex is taken.  A mutex held by the handler that x has
\* preempted cannot be released while x runs: locking a k_mutex from interrupt
\* level is outside the kernel's contract, and either the call waits for ever
\* (K_FOREVER) or the kernel, which books ownership to the interrupted thread,
\* grants the lock a second time.
MutexLock(x, l) ==
    \/ /\ mutex = 0
       /\ mutex' = 1
       /\ Goto(x, l)
    \/ /\ mutex > 0
       /\ mutex' = mutex
       /\ Goto(x, "blocked")
    \/ /\ mutex > 0
       /\ mutex' = mutex + 1
       /\ Goto(x, l)

\* k_mutex_unlock(&uart_idle_mutex)
MutexUnlock == mutex' = mutex - 1

\* ---- uart_timer_expiry_func, lines 110-118 -------------------------------
L114 ==
    /\ At("tmr", "L114")
    /\ MutexLock("tmr", "L115")
    /\ UNCHANGED <<fifo, rx_buf, rx_buf_pos, uart_idle, timer_left, uart_msgq,
                   c, is_idle, hist>>

L115 ==
    /\ At("tmr", "L115")
    /\ uart_idle' = TRUE
    /\ Goto("tmr", "L116")
    /\ UNCHANGED <<fifo, rx_buf, rx_buf_pos, mutex, timer_left, uart_msgq,
                   c, is_idle, hist>>

\* unlock, then line 117: serial_cb(uart_dev, NULL)
L116 ==
    /\ At("tmr", "L116")
    /\ MutexUnlock
    /\ Goto("tmr", "L44")
    /\ UNCHANGED <<fifo, rx_buf, rx_buf_pos, uart_idle, timer_left, uart_msgq,
                   c, is_idle, hist>>

\* ---- serial_cb, lines 40-96 ----------------------------------------------
\* lines 44-50: return unless the UART has a received byte ready
L44(x) ==
    /\ At(x, "L44")
    /\ \/ /\ fifo = <<>>
          /\ Return(x)
       \/ /\ fifo # <<>>
          /\ Goto(x, "L54")
          /\ UNCHANGED <<c, is_idle>>
    /\ UNCHANGED <<fifo, rx_buf, rx_buf_pos, uart_idle, mutex, timer_left,
                   uart_msgq, hist>>

L54(x) ==
    /\ At(x, "L54")
    /\ MutexLock(x, "L55")
    /\ UNCHANGED <<fifo, rx_buf, rx_buf_pos, uart_idle, timer_left, uart_msgq,
                   c, is_idle, hist>>

\* is_idle = uart_idle;
L55(x) ==
    /\ At(x, "L55")
    /\ is_idle' = [is_idle EXCEPT ![x] = uart_idle]
    /\ Goto(x, "L56")
    /\ UNCHANGED <<fifo, rx_buf, rx_buf_pos, uart_idle, mutex, timer_left,
                   uart_msgq, c, hist>>

\* uart_idle = false;
L56(x) ==
    /\ At(x, "L56")
    /\ uart_idle' = FALSE
    /\ Goto(x, "L57")
    /\ UNCHANGED <<fifo, rx_buf, rx_buf_pos, mutex, timer_left, uart_msgq,
                   c, is_idle, hist>>

\* unlock, then the test of line 59 on the local is_idle
L57(x) ==
    /\ At(x, "L57")
    /\ MutexUnlock
    /\ \/ /\ is_idle[x]
          /\ Goto(x, "L61")
       \/ /\ ~is_idle[x]
          /\ Goto(x, "L69")
    /\ UNCHANGED <<fifo, rx_buf, rx_buf_pos, uart_idle, timer_left, uart_msgq,
                   c, is_idle, hist>>

\* rx_buf[rx_buf_pos] = '\0';  (lines 61 and 82)
Terminate(x, here, next) ==
    /\ At(x, here)
    /\ \/ /\ rx_buf_pos \in BufIdx
          /\ rx_buf' = Store(rx_buf, rx_buf_pos, NUL)
          /\ UNCHANGED <<rx_buf_pos, uart_idle>>
       \* rx_buf_pos == sizeof(rx_buf): the byte is written behind the array.
       \* It lands on an object the model does not hold, or on the low byte
       \* of rx_buf_pos (defined next, line 33), or on uart_idle (line 24).
       \/ /\ rx_buf_pos \notin BufIdx
          /\ rx_buf' = rx_buf
          /\ \/ UNCHANGED <<rx_buf_pos, uart_idle>>
             \/ rx_buf_pos' = 0 /\ UNCHANGED uart_idle
             \/ uart_idle' = FALSE /\ UNCHANGED rx_buf_pos
    /\ Goto(x, next)
    /\ UNCHANGED <<fifo, mutex, timer_left, uart_msgq, c, is_idle, hist>>

\* k_msgq_put(&uart_msgq, &rx_buf, K_NO_WAIT);  (lines 62 and 85)
Put(x, here, next) ==
    /\ At(x, here)
    /\ uart_msgq' = MsgqPut(uart_msgq, rx_buf)
    /\ IF Len(uart_msgq) < QueueDepth
       THEN enq' = Append(enq, rx_buf) /\ drops' = drops
       ELSE enq' = enq /\ drops' = drops + 1
    /\ Goto(x, next)
    /\ UNCHANGED <<fifo, rx_buf, rx_buf_pos, uart_idle, mutex, timer_left,
                   c, is_idle, rd, delivered, sent>>

\* ResetPos with the reset forgotten: the cursor keeps its value
ResetPosKept(x, here, next) ==
    /\ At(x, here)
    /\ rx_buf_pos' = rx_buf_pos
    /\ Goto(x, next)
    /\ UNCHANGED <<fifo, rx_buf, uart_idle, mutex, timer_left, uart_msgq,
                   c, is_idle, hist>>

\* rx_buf_pos = 0;  (lines 64 and 88)
ResetPos(x, here, next) ==
    /\ At(x, here)
    /\ rx_buf_pos' = 0
    /\ Goto(x, next)
    /\ UNCHANGED <<fifo, rx_buf, uart_idle, mutex, timer_left, uart_msgq,
                   c, is_idle, hist>>

\* a memset that reaches the queued slots, as if the queue held references
\* to rx_buf instead of copies
ClearBufShared(x, here, next) ==
    /\ At(x, here)
    /\ rx_buf' = Zeros
    /\ uart_msgq' = [i \in 1..Len(uart_msgq) |-> Zeros]
    /\ Goto(x, next)
    /\ UNCHANGED <<fifo, rx_buf_pos, uart_idle, mutex, timer_left,
                   c, is_idle, hist>>

\* memset(rx_buf, 0, sizeof(rx_buf));  (lines 65 and 89)
ClearBuf(x, here, next) ==
    /\ At(x, here)
    /\ rx_buf' = Zeros
    /\ Goto(x, next)
    /\ UNCHANGED <<fifo, rx_buf_pos, uart_idle, mutex, timer_left, uart_msgq,
                   c, is_idle, hist>>

\* the idle flush, lines 61-65
L61(x) == Terminate(x, "L61", "L62")
L62(x) == Put(x, "L62", "L64")
L64(x) == ResetPos(x, "L64", "L65")
\* an idle flush that leaves the flushed bytes in rx_buf
L65_NoClear(x) ==
    /\ At(x, "L65")
    /\ Goto(x, "L69")
    /\ UNCHANGED <<fifo, rx_buf, rx_buf_pos, uart_idle, mutex, timer_left,
                   uart_msgq, c, is_idle, hist>>

L65(x) == ClearBuf(x, "L65", "L69")

\* while (uart_fifo_read(uart_dev, &c, 1) == 1)
L69(x) ==
    /\ At(x, "L69")
    /\ \/ /\ fifo = <<>>
          /\ Return(x)
          /\ UNCHANGED <<fifo, rd>>
       \/ /\ fifo # <<>>
          /\ c' = [c EXCEPT ![x] = Head(fifo)]
          /\ fifo' = Tail(fifo)
          /\ rd' = Append(rd, Head(fifo))
          /\ Goto(x, "L71")
          /\ UNCHANGED is_idle
    /\ UNCHANGED <<rx_buf, rx_buf_pos, uart_idle, mutex, timer_left, uart_msgq,
                   enq, drops, delivered, sent>>

\* k_timer_start(&uart_rx_timer, K_MSEC(1000), K_MSEC(1000));
L71(x) ==
    /\ At(x, "L71")
    /\ timer_left' = IdleTicks
    /\ Goto(x, "L73")
    /\ UNCHANGED <<fifo, rx_buf, rx_buf_pos, uart_idle, mutex, uart_msgq,
                   c, is_idle, hist>>

L73(x) ==
    /\ At(x, "L73")
    /\ MutexLock(x, "L74")
    /\ UNCHANGED <<fifo, rx_buf, rx_buf_pos, uart_idle, timer_left, uart_msgq,
                   c, is_idle, hist>>

L74(x) ==
    /\ At(x, "L74")
    /\ uart_idle' = FALSE
    /\ Goto(x, "L75")
    /\ UNCHANGED <<fifo, rx_buf, rx_buf_pos, mutex, timer_left, uart_msgq,
                   c, is_idle, hist>>

L75(x) ==
    /\ At(x, "L75")
    /\ MutexUnlock
    /\ Goto(x, "L80")
    /\ UNCHANGED <<fifo, rx_buf, rx_buf_pos, uart_idle, timer_left, uart_msgq,
                   c, is_idle, hist>>

\* the if / else if of lines 80 and 90
L80(x) ==
    /\ At(x, "L80")
    /\ \/ /\ FlushCond(c[x], rx_buf_pos)
          /\ Goto(x, "L82")
       \/ /\ ~FlushCond(c[x], rx_buf_pos)
          /\ StoreCond(rx_buf_pos)
          /\ Goto(x, "L91")
       \/ /\ ~FlushCond(c[x], rx_buf_pos)
          /\ ~StoreCond(rx_buf_pos)
          /\ Goto(x, "L69")
    /\ UNCHANGED <<fifo, rx_buf, rx_buf_pos, uart_idle, mutex, timer_left,
                   uart_msgq, c, is_idle, hist>>

\* the terminator flush, lines 82-89
L82(x) == Terminate(x, "L82", "L85")
L85(x) == Put(x, "L85", "L88")
L88(x) == ResetPos(x, "L88", "L89")
L89(x) == ClearBuf(x, "L89", "L69")

\* rx_buf[rx_buf_pos] = c;
L91(x) ==
    /\ At(x, "L91")
    /\ rx_buf' = Store(rx_buf, rx_buf_pos, c[x])
    /\ Goto(x, "L92")
    /\ UNCHANGED <<fifo, rx_buf_pos, uart_idle, mutex, timer_left, uart_msgq,
                   c, is_idle, hist>>

\* rx_buf_pos++;
L92(x) ==
    /\ At(x, "L92")
    /\ rx_buf_pos' = rx_buf_pos + 1
    /\ Goto(x, "L69")
    /\ UNCHANGED <<fifo, rx_buf, uart_idle, mutex, timer_left, uart_msgq,
                   c, is_idle, hist>>

\* ---- the consumer, main() lines 152-156 ----------------------------------
\* k_msgq_get(..., K_FOREVER) suspends main while the queue is empty; the
\* thread runs only when no handler is executing
MainLoop ==
    /\ running = <<>>
    /\ uart_msgq # <<>>
    /\ delivered' = Append(delivered, MsgqGet(uart_msgq)[1])
    /\ uart_msgq' = MsgqGet(uart_msgq)[2]
    /\ UNCHANGED <<fifo, rx_buf, rx_buf_pos, uart_idle, mutex, timer_left,
                   pc, c, is_idle, running, rd, enq, drops, sent>>

\* ---- specifications ------------------------------------------------------
SerialCb(x) ==
    \/ L44(x) \/ L54(x) \/ L55(x) \/ L56(x) \/ L57(x)
    \/ L61(x) \/ L62(x) \/ L64(x) \/ L65(x)
    \/ L69(x) \/ L71(x) \/ L73(x) \/ L74(x) \/ L75(x) \/ L80(x)
    \/ L82(x) \/ L85(x) \/ L88(x) \/ L89(x) \/ L91(x) \/ L92(x)

Next ==
    \/ ByteArrives
    \/ Tick
    \/ IsrEnter
    \/ TimerEnter
    \/ L114 \/ L115 \/ L116
    \/ \E x \in Ctx : SerialCb(x)
    \/ MainLoop

Spec == Init /\ [][Next]_vars

\* the receive path alone: bytes arrive back to back, the line never stays
\* quiet for an idle period and the timer does not expire
NextRx ==
    \/ BurstArrives
    \/ IsrEnter
    \/ SerialCb("isr")
    \/ MainLoop

SpecRx == Init /\ [][NextRx]_vars

\* the whole program while one over-long line arrives
NextLine ==
    \/ LineArrives
    \/ Tick
    \/ IsrEnter
    \/ TimerEnter
    \/ L114 \/ L115 \/ L116
    \/ \E x \in Ctx : SerialCb(x)
    \/ MainLoop

SpecLine == Init /\ [][NextLine]_vars

\* the whole program while the sender pauses for an idle period between bytes
NextGap ==
    \/ GapArrives
    \/ Tick
    \/ IsrEnter
    \/ TimerEnter
    \/ L114 \/ L115 \/ L116
    \/ \E x \in Ctx : SerialCb(x)
    \/ MainLoop

SpecGap == Init /\ [][NextGap]_vars

\* one interrupt priority for both sources: a handler runs to completion
\* before the other one starts
NextSeq ==
    \/ ByteArrives
    \/ Tick
    \/ running = <<>> /\ IsrEnter
    \/ running = <<>> /\ TimerEnter
    \/ L114 \/ L115 \/ L116
    \/ \E x \in Ctx : SerialCb(x)
    \/ MainLoop

SpecSeq == Init /\ [][NextSeq]_vars

TypeOK ==
    /\ rx_buf \in [BufIdx -> Bytes]
    /\ rx_buf_pos \in 0..MSG_SIZE
    /\ uart_idle \in BOOLEAN
    /\ mutex \in 0..2
    /\ timer_left \in 0..IdleTicks
    /\ Len(uart_msgq) <= QueueDepth

\* ---- reference notions used by the properties ------------------------------
\* the terminator set of the framing contract
Terminators == {LF, CR}

\* a byte sequence as the contents of a slot: the bytes, then NULs
Pad(S) == [i \in BufIdx |-> IF i < Len(S) THEN S[i + 1] ELSE NUL]

\* s cut at its terminators: <<the terminated lines, the unterminated rest>>
RECURSIVE Frame(_, _, _)
Frame(s, cur, done) ==
    IF s = <<>> THEN <<done, cur>>
    ELSE IF Head(s) \in Terminators
         THEN Frame(Tail(s), <<>>, Append(done, cur))
         ELSE Frame(Tail(s), Append(cur, Head(s)), done)

DoneLines(s) == Frame(s, <<>>, <<>>)[1]
CurLine(s) == Frame(s, <<>>, <<>>)[2]

\* s without its terminators
StripTerm(s) == SelectSeq(s, LAMBDA b : b \notin Terminators)

\* the payloads of a sequence of slots, one after the other
RECURSIVE Payloads(_)
Payloads(q) == IF q = <<>> THEN <<>> ELSE print_uart(Head(q)) \o Payloads(Tail(q))

\* rx_buf[0..rx_buf_pos)
BufPrefix == [i \in 1..rx_buf_pos |-> rx_buf[i - 1]]

\* every terminated line read so far fits a slot
LinesFit(s) == \A i \in 1..Len(DoneLines(s)) : Len(DoneLines(s)[i]) <= MSG_SIZE - 1

\* the receive interrupt is between two bytes: not running, or at the loop head
IsrBetweenBytes == pc["isr"] \in {"idle", "L69"}

\* ---- properties ------------------------------------------------------------
\* C1 (terminator flush).  With no timer expiry (SpecRx), whenever the receive
\* interrupt is between two bytes, no put has met a full queue and every
\* terminated line read so far has at most MSG_SIZE-1 bytes, the slots
\* accepted by the queue are exactly the terminated lines read so far, one
\* slot per line, in order, each holding the line without its terminator
\* followed by NULs.  The slot of a line is therefore in the queue as soon as
\* the handling of its terminator is over.
C1_TerminatorFlush ==
    (IsrBetweenBytes /\ drops = 0 /\ LinesFit(rd))
        => enq = [i \in 1..Len(DoneLines(rd)) |-> Pad(DoneLines(rd)[i])]

\* a line of MSG_SIZE-1 bytes has just been terminated and its slot accepted
C1_Witness ==
    /\ pc["isr"] = "L69"
    /\ rd # <<>>
    /\ rd[Len(rd)] \in Terminators
    /\ drops = 0
    /\ LinesFit(rd)
    /\ Len(DoneLines(rd)[Len(DoneLines(rd))]) = MSG_SIZE - 1
    /\ enq # <<>>
    /\ enq[Len(enq)] = Pad(DoneLines(rd)[Len(DoneLines(rd))])

\* C2 (idle flush), as claimed.  Handlers run one at a time (SpecSeq).  When
\* the expiry function finds no byte waiting and returns, with room in the
\* queue, it does not leave an unterminated sequence of 1..MSG_SIZE-2 bytes in
\* the receive buffer: the flush needs no further input byte.
C2_IdleFlush_Claim ==
    [][(/\ pc["tmr"] = "L44"
        /\ pc'["tmr"] = "idle"
        /\ Len(uart_msgq) < QueueDepth)
          => rx_buf_pos' \notin 1..(MSG_SIZE - 2)]_vars

\* C3 (buffer-full boundary), as claimed.  With no timer expiry (SpecRx), once
\* the receive interrupt has read MSG_SIZE or more non-terminator bytes in a
\* row after lines that fit, a boundary has been forced: the first MSG_SIZE-1
\* bytes of the run are in a slot accepted by the queue.
C3_BufferFull_Claim ==
    (IsrBetweenBytes /\ drops = 0 /\ LinesFit(rd) /\ Len(CurLine(rd)) >= MSG_SIZE)
        => /\ Len(enq) > Len(DoneLines(rd))
           /\ enq[Len(DoneLines(rd)) + 1] = Pad(SubSeq(CurLine(rd), 1, MSG_SIZE - 1))

\* C4 (spurious idle expiry), as claimed.  As long as no byte has been read
\* the receive buffer has always been empty, and no expiry, however often
\* repeated and whenever its idle flag is consumed, makes serial_cb put a
\* message.
C4_SpuriousIdle_Claim == rd = <<>> => (enq = <<>> /\ drops = 0)

\* C5 (exactly-once, in-order delivery), as claimed.  Whenever no handler is
\* running, no put has met a full queue and every line read has at most
\* MSG_SIZE-1 bytes, the payloads of the accepted slots in order, followed by
\* rx_buf[0..rx_buf_pos), are the bytes read so far without the terminators.
C5_ExactlyOnce_Claim ==
    (/\ running = <<>>
     /\ drops = 0
     /\ LinesFit(rd)
     /\ Len(CurLine(rd)) <= MSG_SIZE - 1)
        => Payloads(enq) \o BufPrefix = StripTerm(rd)

\* C6 (overflow is drop-newest).  The queue never holds more than QueueDepth
\* slots, and a put (line 62 or 85) on a full queue goes on to the next
\* statement leaving the queued slots and their order as they were.
C6_DropNewest ==
    [][/\ Len(uart_msgq') <= QueueDepth
       /\ \A x \in Ctx :
            (/\ At(x, "L62") \/ At(x, "L85")
             /\ pc'[x] # pc[x]
             /\ Len(uart_msgq) = QueueDepth)
               => /\ uart_msgq' = uart_msgq
                  /\ pc'[x] \in {"L64", "L88"}]_vars

\* a put has met a full queue, which still holds its QueueDepth oldest slots
C6_Witness ==
    /\ drops > 0
    /\ Len(uart_msgq) = QueueDepth
    /\ delivered = <<>>
    /\ uart_msgq = SubSeq(enq, 1, QueueDepth)

\* C7 (FIFO delivery).  The slots handed to the consumer, followed by the
\* slots still queued, are the accepted slots in the order of their puts.
C7_Fifo == delivered \o uart_msgq = enq

\* two different messages were accepted and the consumer has taken the first
\* while the second is still queued
C7_Witness ==
    /\ Len(delivered) >= 1
    /\ Len(uart_msgq) >= 1
    /\ delivered[1] # uart_msgq[1]

C9_NulTerminated_Claim ==
    /\ \A i \in 1..Len(uart_msgq) : strlen(uart_msgq[i]) <= MSG_SIZE - 1
    /\ \A i \in 1..Len(delivered) : strlen(delivered[i]) <= MSG_SIZE - 1

\* C10 (terminators are never stored).  No element of rx_buf and no byte of a
\* queued or delivered slot is a line feed or a carriage return.
C10_NoTerminatorStored ==
    /\ \A i \in BufIdx : rx_buf[i] \notin {LF, CR}
    /\ \A k \in 1..Len(uart_msgq) : \A i \in BufIdx : uart_msgq[k][i] \notin {LF, CR}
    /\ \A k \in 1..Len(delivered) : \A i \in BufIdx : delivered[k][i] \notin {LF, CR}

\* both terminators have been read and a non-empty message was delivered
C10_Witness ==
    /\ \E i \in 1..Len(rd) : rd[i] = LF
    /\ \E i \in 1..Len(rd) : rd[i] = CR
    /\ \E k \in 1..Len(delivered) : strlen(delivered[k]) > 0

\* C11 (cursor bound), as claimed.  The cursor stays inside 0..MSG_SIZE-1, so
\* the element rx_buf[rx_buf_pos] exists whenever it is written.
C11_CursorBound_Claim == rx_buf_pos \in 0..(MSG_SIZE - 1)

\* the positions inside a buffer access of serial_cb: the context has made
\* the first access of an idle flush (line 61), of a boundary flush or of a
\* byte store (the tests of lines 80 and 90 read rx_buf_pos) and has not yet
\* made the last one (lines 65, 89, 92)
BufferCode == {"L62", "L64", "L65", "L82", "L85", "L88", "L89", "L91", "L92"}

\* C12 (exclusive ownership of the receive buffer), as claimed.  The two
\* invocations of serial_cb are never both between the first and the last
\* access of a flush or a store.
C12_ExclusiveBuffer_Claim ==
    ~(pc["isr"] \in BufferCode /\ pc["tmr"] \in BufferCode)

\* C13 (an idle expiry is consumed once), as claimed.  The read of line 55 and
\* the reset of line 56 are one step with respect to the other context: while
\* the expiry's invocation has read TRUE and has not yet reset the flag, the
\* UART interrupt that preempted it does not read the same TRUE (no line 115
\* has run in between, the expiry function being suspended).
C13_TakeOnce_Claim ==
    ~(/\ running = <<"isr", "tmr">>
      /\ pc["tmr"] = "L56" /\ is_idle["tmr"]
      /\ pc["isr"] = "L56" /\ is_idle["isr"])

\* C14 (idle gaps separate messages), as claimed.  When every two consecutive
\* bytes are separated by an idle expiry, no two bytes share a message: each
\* accepted slot carries at most one byte.
C14_GapSeparates_Claim == \A i \in 1..Len(enq) : strlen(enq[i]) <= 1

\* the effect of declaring a boundary, statement by statement: context x goes
\* through the positions p1..p4 and continues at p5
Boundary(x, p1, p2, p3, p4, p5) ==
    /\ (pc[x] = p1 /\ pc'[x] # p1) =>
          /\ pc'[x] = p2
          /\ rx_buf' = [rx_buf EXCEPT ![rx_buf_pos] = NUL]
          /\ UNCHANGED <<rx_buf_pos, uart_msgq>>
    /\ (pc[x] = p2 /\ pc'[x] # p2) =>
          /\ pc'[x] = p3
          /\ uart_msgq' = IF Len(uart_msgq) < QueueDepth
                           THEN uart_msgq \o <<rx_buf>> ELSE uart_msgq
          /\ UNCHANGED <<rx_buf, rx_buf_pos>>
    /\ (pc[x] = p3 /\ pc'[x] # p3) =>
          /\ pc'[x] = p4
          /\ rx_buf_pos' = 0
          /\ UNCHANGED <<rx_buf, uart_msgq>>
    /\ (pc[x] = p4 /\ pc'[x] # p4) =>
          /\ pc'[x] = p5
          /\ rx_buf' = [i \in BufIdx |-> NUL]
          /\ UNCHANGED <<rx_buf_pos, uart_msgq>>

\* C15 (idle flush and terminator flush are one procedure).  The idle flush
\* of lines 61-65 and the terminator flush of lines 82-89 are the same four
\* steps with the same effect on rx_buf, rx_buf_pos and the queue: the slot
\* NUL-terminated at rx_buf_pos is enqueued unless the queue is full, and in
\* both cases the cursor becomes 0 and the buffer all zero.
C15_SameFlush ==
    [][\A x \in Ctx : /\ Boundary(x, "L61", "L62", "L64", "L65", "L69")
                      /\ Boundary(x, "L82", "L85", "L88", "L89", "L69")]_vars

\* 'a' was flushed by the idle path (no terminator had been read), a second
\* 'a' by a terminator, and the two accepted slots are equal
C15_Witness ==
    /\ rd = <<97, 97, LF>>
    /\ Len(enq) = 2 /\ enq[1] = enq[2] /\ strlen(enq[1]) = 1
    /\ rx_buf_pos = 0 /\ rx_buf = Zeros
    /\ running = <<>>

\* C16 (every byte restarts the idle period), as claimed.  Once a byte has
\* been read the expiry function does not set uart_idle before a full period
\* has passed: in particular not while the UART interrupt has read a byte
\* (line 69) and has not yet restarted the timer (line 71), no time having
\* passed since the read.
C16_FreshPeriod_Claim ==
    [][(At("tmr", "L115") /\ pc'["tmr"] = "L116") => pc["isr"] # "L71"]_vars

C18_IndependentCopies ==
    [][\/ uart_msgq' = uart_msgq
       \/ /\ Len(uart_msgq') = Len(uart_msgq) + 1
          /\ SubSeq(uart_msgq', 1, Len(uart_msgq)) = uart_msgq
       \/ /\ uart_msgq # <<>>
          /\ uart_msgq' = Tail(uart_msgq)
          /\ delivered' = Append(delivered, Head(uart_msgq))
          /\ UNCHANGED <<rx_buf, rx_buf_pos, uart_idle>>]_vars

\* the line "a" is queued and not yet popped, while the buffer has been
\* reset and a later byte has been stored in it
C18_Witness ==
    /\ rd = <<97, LF, 97>>
    /\ Len(uart_msgq) = 1 /\ strlen(uart_msgq[1]) = 1
    /\ delivered = <<>>
    /\ rx_buf_pos = 1
    /\ running = <<>>

====
